---------------------------- MODULE Spec2Model ----------------------------
(***************************************************************************)
(* Model of scraping_weather.py: the Range Collector (create_csv_hour),   *)
(* the Station Classifier (select_weather_observatory), the Day Extractor *)
(* (scraping_day_per_hour) and the Value Coercer (string_to_float).       *)
(*                                                                         *)
(* Texts are sequences of one-character strings, so that float() is a     *)
(* parser and not the identity.  A td element is the sequence of its text *)
(* children; BeautifulSoup's .string is that child when there is exactly  *)
(* one, and None otherwise.  A row (tr) is the sequence of its td         *)
(* elements, a table the sequence of its rows.                            *)
(*                                                                         *)
(* Opening and writing the output file are taken to succeed; the failures *)
(* modelled are those of the Day Extractor (urlopen raising, the table    *)
(* missing, a row with too few cells).                                    *)
(***************************************************************************)
EXTENDS Integers, Sequences, FiniteSets, TLC

VARIABLES
    pc,             \* position in create_csv_hour / scraping_day_per_hour
    block_no,       \* user input: station code (sequence of characters)
    start_date,     \* user input, as datetime.date
    end_date,       \* user input, as datetime.date
    facility_type,  \* result of select_weather_observatory
    sink,           \* the file f: "unopened", "open" or "closed"
    csv,            \* rows written to the file, header first
    date,           \* the date cursor of the while loop
    html,           \* what urlopen(url) gave for the current date
    data_per_day,   \* what scraping_day_per_hour returned
    wi,             \* position of "for dpd in data_per_day"
    exc,            \* the exception propagating out, "" when none
    log,            \* history: the sleeps and fetches so far, in order
    produced        \* history: every record the Day Extractor returned so far

vars == <<pc, block_no, start_date, end_date, facility_type, sink, csv,
          date, html, data_per_day, wi, exc, log, produced>>

---------------------------------------------------------------------------
(* Bounds of the model *)

\* number of consecutive calendar dates the user's start and end dates are drawn from
NumDates == 2

\* largest number of data rows (after the two header rows) of a fetched table
MaxRows == 2

---------------------------------------------------------------------------
(* Python values *)

\* Python's None; str(None) is "None", which is what the f-string of the url shows
None == "None"

\* facility_type for a 5-character block_no
TypeS1 == "s1"

\* facility_type for a 4-character block_no
TypeA1 == "a1"

\* the header row written first (the source's labels are Japanese:
\* year-month-day, hour, precipitation)
fields == <<"nengappi", "jikan", "kousuiryou">>

---------------------------------------------------------------------------
(* datetime.date *)

Date(y, m, d) == [year |-> y, month |-> m, day |-> d]

IsLeap(y) == (y % 4 = 0) /\ ((y % 100 # 0) \/ (y % 400 = 0))

DaysInMonth(y, m) ==
    IF m = 2 THEN (IF IsLeap(y) THEN 29 ELSE 28)
    ELSE IF m \in {4, 6, 9, 11} THEN 30 ELSE 31

\* a loop test written "date < end_date"
DateLE_strict(a, b) ==
    \/ a.year < b.year
    \/ a.year = b.year /\ a.month < b.month
    \/ a.year = b.year /\ a.month = b.month /\ a.day < b.day

\* a loop test that compares the day of the month alone
DateLE_dayonly(a, b) == a.day <= b.day

\* date <= end_date
DateLE(a, b) ==
    \/ a.year < b.year
    \/ a.year = b.year /\ a.month < b.month
    \/ a.year = b.year /\ a.month = b.month /\ a.day <= b.day

\* date + datetime.timedelta(1)
AddOneDay(d) ==
    IF d.day < DaysInMonth(d.year, d.month) THEN Date(d.year, d.month, d.day + 1)
    ELSE IF d.month < 12 THEN Date(d.year, d.month + 1, 1)
    ELSE Date(d.year + 1, 1, 1)

RECURSIVE AddDays(_, _)
AddDays(d, n) == IF n = 0 THEN d ELSE AddDays(AddOneDay(d), n - 1)

\* the first date of the window the inputs are drawn from: 2020-02-29, so that
\* the cursor crosses a leap day and a month boundary
BaseDate == Date(2020, 2, 29)

Dates == { AddDays(BaseDate, n) : n \in 0..(NumDates - 1) }

---------------------------------------------------------------------------
(* Station Classifier *)

\* station codes tried: 5 characters, 4 characters, and two invalid lengths
BlockNos == { <<"4","7","6","6","2">>, <<"0","3","6","3">>,
              <<"4","7","6">>, <<"4","7","6","6","2","0">> }

\* the region code; it only travels into the url
prec_no == <<"4","4">>

\* the two facility types exchanged
select_weather_observatory_swapped(b) ==
    IF Len(b) = 5 THEN TypeA1
    ELSE IF Len(b) = 4 THEN TypeS1
    ELSE None

select_weather_observatory(b) ==
    IF Len(b) = 5 THEN TypeS1
    ELSE IF Len(b) = 4 THEN TypeA1
    ELSE None   \* prints two lines and returns nothing

---------------------------------------------------------------------------
(* Value Coercer: float(text), 0 when float raises *)

Digits == {"0","1","2","3","4","5","6","7","8","9"}

DigitVal(c) ==
    CASE c = "0" -> 0 [] c = "1" -> 1 [] c = "2" -> 2 [] c = "3" -> 3
      [] c = "4" -> 4 [] c = "5" -> 5 [] c = "6" -> 6 [] c = "7" -> 7
      [] c = "8" -> 8 [] c = "9" -> 9

RECURSIVE LStrip(_)
LStrip(s) == IF s # <<>> /\ Head(s) = " " THEN LStrip(Tail(s)) ELSE s

RECURSIVE RStrip(_)
RStrip(s) ==
    IF s # <<>> /\ s[Len(s)] = " " THEN RStrip(SubSeq(s, 1, Len(s) - 1)) ELSE s

Strip(s) == RStrip(LStrip(s))

AllDigits(s) == \A i \in 1..Len(s) : s[i] \in Digits

RECURSIVE DigitsVal(_)
DigitsVal(s) ==
    IF s = <<>> THEN 0
    ELSE 10 * DigitsVal(SubSeq(s, 1, Len(s) - 1)) + DigitVal(s[Len(s)])

\* a float: kind "finite" has the value sign * mant / 10^scale
Float(k, sg, m, sc) == [kind |-> k, sign |-> sg, mant |-> m, scale |-> sc]

RECURSIVE Normalize(_, _, _)
Normalize(sg, m, sc) ==
    IF sc > 0 /\ m % 10 = 0 THEN Normalize(sg, m \div 10, sc - 1)
    ELSE Float("finite", sg, m, sc)

\* the number 0 that string_to_float returns when float raises
Zero == Float("finite", 1, 0, 0)

PointAt(s) == { i \in 1..Len(s) : s[i] = "." }

\* float(t) for a text over digits, ".", "+", "-", blanks and letters without
\* exponent or underscore: [ok |-> FALSE] stands for ValueError
PyFloat(t) ==
    LET s    == Strip(t)
        neg  == s # <<>> /\ Head(s) = "-"
        sgn  == IF neg THEN -1 ELSE 1
        body == IF s # <<>> /\ Head(s) \in {"+", "-"} THEN Tail(s) ELSE s
        pts  == PointAt(body)
    IN  IF body \in { <<"n","a","n">> }
          THEN [ok |-> TRUE, val |-> Float("nan", sgn, 0, 0)]
        ELSE IF body \in { <<"i","n","f">>, <<"i","n","f","i","n","i","t","y">> }
          THEN [ok |-> TRUE, val |-> Float("inf", sgn, 0, 0)]
        ELSE IF pts = {} /\ body # <<>> /\ AllDigits(body)
          THEN [ok |-> TRUE, val |-> Normalize(sgn, DigitsVal(body), 0)]
        ELSE IF Cardinality(pts) = 1
          THEN LET p    == CHOOSE i \in pts : TRUE
                   ip   == SubSeq(body, 1, p - 1)
                   fp   == SubSeq(body, p + 1, Len(body))
               IN  IF Len(ip) + Len(fp) > 0 /\ AllDigits(ip) /\ AllDigits(fp)
                     THEN [ok |-> TRUE,
                           val |-> Normalize(sgn, DigitsVal(ip \o fp), Len(fp))]
                     ELSE [ok |-> FALSE, val |-> Zero]
        ELSE [ok |-> FALSE, val |-> Zero]

\* what .string gives: None, or the text
NoString == [isNone |-> TRUE, text |-> <<>>]

String(t) == [isNone |-> FALSE, text |-> t]

\* a coercer whose fallback is not-a-number instead of 0
string_to_float_nan(weather_data) ==
    IF weather_data.isNone THEN Float("nan", 1, 0, 0)
    ELSE IF PyFloat(weather_data.text).ok THEN PyFloat(weather_data.text).val
    ELSE Float("nan", 1, 0, 0)

string_to_float(weather_data) ==
    IF weather_data.isNone THEN Zero        \* float(None) raises TypeError
    ELSE IF PyFloat(weather_data.text).ok THEN PyFloat(weather_data.text).val
    ELSE Zero

---------------------------------------------------------------------------
(* Day Extractor *)

\* tag.string of BeautifulSoup: the single text child, None otherwise
TdString(td) == IF Len(td) = 1 THEN String(td[1]) ELSE NoString

\* tds[i], i counted from 0; IndexError when the row has no such cell
HasCell(tds, i) == Len(tds) > i

Cell(tds, i) == tds[i + 1]

\* trs.findAll('tr')[2:]
DataRows(trs) == SubSeq(trs, 3, Len(trs))

\* the cell holding the precipitation under each facility type
PrecCellS1 == 3

PrecCellA1 == 1

HourCell == 0

\* the body of "for tr in ...": acc is data_list_per_hour
RECURSIVE RowLoop(_, _, _, _)
RowLoop(rows, d, ft, acc) ==
    IF rows = <<>> THEN [exc |-> "", recs |-> acc]
    ELSE LET tds == Head(rows)
         IN  IF ft = TypeS1 THEN
                 IF ~HasCell(tds, PrecCellS1) THEN [exc |-> "IndexError", recs |-> <<>>]
                 ELSE IF TdString(Cell(tds, PrecCellS1)).isNone
                   THEN [exc |-> "", recs |-> acc]
                 ELSE RowLoop(Tail(rows), d, ft,
                        Append(acc, <<d, TdString(Cell(tds, HourCell)),
                                      string_to_float(TdString(Cell(tds, PrecCellS1)))>>))
             ELSE IF ft = TypeA1 THEN
                 IF ~HasCell(tds, PrecCellA1) THEN [exc |-> "IndexError", recs |-> <<>>]
                 ELSE IF TdString(Cell(tds, PrecCellA1)).isNone
                   THEN [exc |-> "", recs |-> acc]
                 ELSE RowLoop(Tail(rows), d, ft,
                        Append(acc, <<d, TdString(Cell(tds, HourCell)),
                                      string_to_float(TdString(Cell(tds, PrecCellA1)))>>))
             ELSE RowLoop(Tail(rows), d, ft, acc)

\* a response of urlopen(url): kind "URLError" (urlopen raises), "notable" (a
\* page without table.data2_s) or "table" (trs are the rows of that table)
Response(k, trs) == [kind |-> k, trs |-> trs]

scraping_day_per_hour(resp, d, ft) ==
    IF resp.kind = "URLError" THEN [exc |-> "URLError", recs |-> <<>>]
    ELSE IF resp.kind = "notable"
      THEN [exc |-> "AttributeError", recs |-> <<>>]   \* None.findAll
    ELSE RowLoop(DataRows(resp.trs), d, ft, <<>>)

---------------------------------------------------------------------------
(* Pages *)

Td(t) == << t >>

EmptyTd == << >>

\* a header row: th cells only, so findAll('td') is empty
HeaderRow == << >>

\* hour 1, 0.5 in cell 1, 12.3 in cell 3
RowNum  == << Td(<<"1">>), Td(<<"0",".","5">>), Td(<<"3">>), Td(<<"1","2",".","3">>) >>

\* hour 2, the placeholders of the site for "no data"
RowDash == << Td(<<"2">>), Td(<<"-","-">>), Td(<<"3">>), Td(<<"x">>) >>

\* hour 3, the remaining cells present and empty
RowEmpty == << Td(<<"3">>), EmptyTd, EmptyTd, EmptyTd >>

\* hour 4 and no other cell
RowShort == << Td(<<"4">>) >>

\* hour 5, texts float() reads as not-a-number and infinity
RowNan == << Td(<<"5">>), Td(<<"n","a","n">>), Td(<<"3">>), Td(<<"-","i","n","f">>) >>

\* hour 6, two cells only, the value padded with blanks and zeros
RowTwo == << Td(<<"6">>), Td(<<" ","1",".","5","0"," ">>) >>

\* hour 7, cells holding a blank text, and a cell with two text children
RowBlank == << Td(<<"7">>), Td(<<" ">>), Td(<<"3">>), Td(<<" ">>) >>

RowMulti == << Td(<<"8">>), << <<"1">>, <<"2">> >>, Td(<<"3">>), << <<"1">>, <<"2">> >> >>

RowSamples == { RowNum, RowDash, RowEmpty, RowShort, RowNan, RowTwo, RowBlank, RowMulti }

\* the rows of the pages fetched in a run of the Range Collector
RunRowSamples == { RowNum, RowDash, RowEmpty, RowShort }

SeqsUpTo(S, n) == UNION { [1..k -> S] : k \in 0..n }

Tables(S) ==
    { <<HeaderRow, HeaderRow>> \o rows : rows \in SeqsUpTo(S, MaxRows) }

\* tables with fewer than two rows, and one whose first two rows look like data
OddTables == { << >>, <<HeaderRow>>, <<RowNum, RowNum, RowDash>> }

Responses(S) ==
    { Response("URLError", <<>>), Response("notable", <<>>) }
      \cup { Response("table", t) : t \in Tables(S) }

DayResponses == Responses(RowSamples) \cup { Response("table", t) : t \in OddTables }

RunResponses == Responses(RunRowSamples)

\* the url: hourly_{facility_type}.php?prec_no=..&block_no=..&year=..&month=..&day=..
Url(ft, p, b, d) ==
    [variant |-> ft, prec_no |-> p, block_no |-> b,
     year |-> d.year, month |-> d.month, day |-> d.day]


\* time.sleep(1)
SleepSecs == 1

Event(ev, secs, url, ft) == [ev |-> ev, secs |-> secs, url |-> url, ft |-> ft]

NoUrl == Url(None, <<>>, <<>>, Date(0, 0, 0))

\* leaving the "with open(...) as f" block, normally or by an exception, closes f
WithExit(s) == "closed"

---------------------------------------------------------------------------
(* Range Collector: create_csv_hour *)

Init ==
    /\ pc = "start"
    /\ block_no \in BlockNos
    /\ start_date \in Dates
    /\ end_date \in Dates
    /\ facility_type = None
    /\ sink = "unopened"
    /\ csv = <<>>
    /\ date = start_date
    /\ html = Response("table", <<>>)
    /\ data_per_day = <<>>
    /\ wi = 1
    /\ exc = ""
    /\ log = <<>>
    /\ produced = <<>>

\* lines 41-66: classify the station, open the file, write the header
Start ==
    /\ pc = "start"
    /\ facility_type' = select_weather_observatory(block_no)
    /\ sink' = "open"
    /\ csv' = <<fields>>
    /\ date' = start_date
    /\ pc' = "loop"
    /\ UNCHANGED <<block_no, start_date, end_date, html, data_per_day, wi, exc,
                   log, produced>>

\* lines 67-69: the loop test holds, sleep
Sleep ==
    /\ pc = "loop"
    /\ DateLE(date, end_date)
    /\ log' = Append(log, Event("sleep", SleepSecs, NoUrl, None))
    /\ pc' = "fetch"
    /\ UNCHANGED <<block_no, start_date, end_date, facility_type, sink, csv, date,
                   html, data_per_day, wi, exc, produced>>

\* line 67: the loop test fails, the with block is left, lines 85-87
Finish ==
    /\ pc = "loop"
    /\ ~DateLE(date, end_date)
    /\ sink' = WithExit(sink)
    /\ pc' = "done"
    /\ UNCHANGED <<block_no, start_date, end_date, facility_type, csv, date, html,
                   data_per_day, wi, exc, log, produced>>

\* lines 73-77: build the url, scraping_day_per_hour returns
FetchOk ==
    /\ pc = "fetch"
    /\ \E resp \in RunResponses :
         LET r == scraping_day_per_hour(resp, date, facility_type)
         IN  /\ r.exc = ""
             /\ html' = resp
             /\ data_per_day' = r.recs
             /\ produced' = produced \o r.recs
    /\ log' = Append(log, Event("fetch", 0,
                     Url(facility_type, prec_no, block_no, date), facility_type))
    /\ wi' = 1
    /\ pc' = "write"
    /\ UNCHANGED <<block_no, start_date, end_date, facility_type, sink, csv, date, exc>>

\* the exception caught and the day taken as empty
FetchRaiseCaught ==
    /\ pc = "fetch"
    /\ \E resp \in RunResponses :
         LET r == scraping_day_per_hour(resp, date, facility_type)
         IN  /\ r.exc # ""
             /\ html' = resp
    /\ log' = Append(log, Event("fetch", 0,
                     Url(facility_type, prec_no, block_no, date), facility_type))
    /\ data_per_day' = <<>>
    /\ wi' = 1
    /\ pc' = "write"
    /\ UNCHANGED <<block_no, start_date, end_date, facility_type, sink, csv, date,
                   exc, produced>>

\* the file opened without "with" and closed only after the loop
FetchRaiseNoClose ==
    /\ pc = "fetch"
    /\ \E resp \in RunResponses :
         LET r == scraping_day_per_hour(resp, date, facility_type)
         IN  /\ r.exc # ""
             /\ html' = resp
             /\ exc' = r.exc
    /\ log' = Append(log, Event("fetch", 0,
                     Url(facility_type, prec_no, block_no, date), facility_type))
    /\ pc' = "failed"
    /\ UNCHANGED <<block_no, start_date, end_date, facility_type, sink, csv, date,
                   data_per_day, wi, produced>>

\* lines 73-77: build the url, scraping_day_per_hour raises; nothing catches
\* it, the with block is left by the exception
FetchRaise ==
    /\ pc = "fetch"
    /\ \E resp \in RunResponses :
         LET r == scraping_day_per_hour(resp, date, facility_type)
         IN  /\ r.exc # ""
             /\ html' = resp
             /\ exc' = r.exc
    /\ log' = Append(log, Event("fetch", 0,
                     Url(facility_type, prec_no, block_no, date), facility_type))
    /\ sink' = WithExit(sink)
    /\ pc' = "failed"
    /\ UNCHANGED <<block_no, start_date, end_date, facility_type, csv, date,
                   data_per_day, wi, produced>>

\* the records of a day written last first
WriteRowReversed ==
    /\ pc = "write"
    /\ wi <= Len(data_per_day)
    /\ sink = "open"
    /\ csv' = Append(csv, data_per_day[Len(data_per_day) - wi + 1])
    /\ wi' = wi + 1
    /\ UNCHANGED <<pc, block_no, start_date, end_date, facility_type, sink, date,
                   html, data_per_day, exc, log, produced>>

\* lines 80-81: one turn of "for dpd in data_per_day"
WriteRow ==
    /\ pc = "write"
    /\ wi <= Len(data_per_day)
    /\ sink = "open"
    /\ csv' = Append(csv, data_per_day[wi])
    /\ wi' = wi + 1
    /\ UNCHANGED <<pc, block_no, start_date, end_date, facility_type, sink, date,
                   html, data_per_day, exc, log, produced>>

\* line 83: the for loop is over, advance the cursor
Advance ==
    /\ pc = "write"
    /\ wi > Len(data_per_day)
    /\ date' = AddOneDay(date)
    /\ pc' = "loop"
    /\ UNCHANGED <<block_no, start_date, end_date, facility_type, sink, csv, html,
                   data_per_day, wi, exc, log, produced>>

Next == Start \/ Sleep \/ Finish \/ FetchOk \/ FetchRaise \/ WriteRow \/ Advance

Spec == Init /\ [][Next]_vars

---------------------------------------------------------------------------
(* Day Extractor alone: one call of scraping_day_per_hour on any response *)

InitDay ==
    /\ pc = "call"
    /\ block_no \in BlockNos
    /\ facility_type = select_weather_observatory(block_no)
    /\ date \in Dates
    /\ start_date = date
    /\ end_date = date
    /\ html \in DayResponses
    /\ sink = "open"
    /\ csv = <<fields>>
    /\ data_per_day = <<>>
    /\ wi = 1
    /\ exc = ""
    /\ log = <<>>
    /\ produced = <<>>

DayReturn ==
    /\ pc = "call"
    /\ scraping_day_per_hour(html, date, facility_type).exc = ""
    /\ data_per_day' = scraping_day_per_hour(html, date, facility_type).recs
    /\ pc' = "returned"
    /\ UNCHANGED <<block_no, start_date, end_date, facility_type, sink, csv, date,
                   html, wi, exc, log, produced>>

DayRaise ==
    /\ pc = "call"
    /\ scraping_day_per_hour(html, date, facility_type).exc # ""
    /\ exc' = scraping_day_per_hour(html, date, facility_type).exc
    /\ pc' = "raised"
    /\ UNCHANGED <<block_no, start_date, end_date, facility_type, sink, csv, date,
                   html, data_per_day, wi, log, produced>>

NextDay == DayReturn \/ DayRaise

SpecDay == InitDay /\ [][NextDay]_vars

---------------------------------------------------------------------------
(* Vocabulary of the properties *)

Last(s) == s[Len(s)]

IsPrefix(s, t) == Len(s) <= Len(t) /\ \A i \in 1..Len(s) : s[i] = t[i]

ValidStation == Len(block_no) \in {4, 5}

\* the position of a date in its year, counted month by month
RECURSIVE DaysBeforeMonth(_, _)
DaysBeforeMonth(y, m) ==
    IF m <= 1 THEN 0 ELSE DaysBeforeMonth(y, m - 1) + DaysInMonth(y, m - 1)

DayOfYear(d) == DaysBeforeMonth(d.year, d.month) + d.day

IsCalendarDate(d) ==
    d.month \in 1..12 /\ d.day \in 1..DaysInMonth(d.year, d.month)

\* start_date and end_date lie in one year, so the day of the year orders them
RangeInOrder == DayOfYear(start_date) <= DayOfYear(end_date)

RangeReversed == DayOfYear(start_date) > DayOfYear(end_date)

UrlDate(u) == Date(u.year, u.month, u.day)

\* the data rows of the output table: all rows after the header
Written == SubSeq(csv, 2, Len(csv))

\* the data rows of the table last fetched
PageRows == DataRows(html.trs)

\* the cell the precipitation is expected in, counted from 0
TargetCell == IF facility_type = "s1" THEN 3 ELSE 1

DayCallOver == pc \in {"returned", "raised"}

OnTable == html.kind = "table" /\ facility_type \in {"s1", "a1"}

\* the cell is not there to read: the td is missing from the row, or it is
\* there and has no text to give
StructurallyAbsent(tds) ==
    ~HasCell(tds, TargetCell) \/ TdString(Cell(tds, TargetCell)).isNone

\* the record the Day Extractor is to make of a row
RecordOf(tds) ==
    << date, TdString(Cell(tds, 0)), string_to_float(TdString(Cell(tds, TargetCell))) >>

CellPresent(tds) == HasCell(tds, TargetCell)

CellHasString(tds) ==
    HasCell(tds, TargetCell) /\ ~TdString(Cell(tds, TargetCell)).isNone

\* number of leading rows whose target cell is present
RECURSIVE LeadingPresent(_)
LeadingPresent(rows) ==
    IF rows # <<>> /\ CellPresent(Head(rows))
    THEN 1 + LeadingPresent(Tail(rows)) ELSE 0

\* number of leading rows whose target cell has a string
RECURSIVE LeadingWithString(_)
LeadingWithString(rows) ==
    IF rows # <<>> /\ CellHasString(Head(rows))
    THEN 1 + LeadingWithString(Tail(rows)) ELSE 0

\* texts that are no number: the placeholders and the blank
NoNumberTexts == { <<"-","-">>, <<"x">>, <<" ">>, <<>> }

---------------------------------------------------------------------------
(* C1 *)

\* C1: with a station_code whose length is neither 4 nor 5 the run stops before
\* any network activity: no pause, no fetch and no data row ever occurs.
C1_InvalidStationStops ==
    ~ValidStation =>
        /\ log = <<>>
        /\ Len(csv) <= 1
        /\ pc \notin {"fetch", "write"}

---------------------------------------------------------------------------
(* C2 *)

\* C2: if data row k (from 0) is the first whose precipitation cell is
\* structurally absent, scraping_day_per_hour returns normally with exactly the
\* k records of data rows 0..k-1, in page order.
C2_EarlyTermination ==
    (DayCallOver /\ OnTable) =>
        \A k \in 1..Len(PageRows) :
            (/\ StructurallyAbsent(PageRows[k])
             /\ \A j \in 1..(k - 1) : ~StructurallyAbsent(PageRows[j]))
            => /\ pc = "returned"
               /\ Len(data_per_day) = k - 1
               /\ \A j \in 1..(k - 1) : data_per_day[j] = RecordOf(PageRows[j])

---------------------------------------------------------------------------
(* C3 *)

---------------------------------------------------------------------------
(* C7 *)

\* C7: the precipitation of every record produced is a finite number.
C7_PrecipitationFinite ==
    pc = "returned" =>
        \A j \in 1..Len(data_per_day) : data_per_day[j][3].kind = "finite"

---------------------------------------------------------------------------
(* C4 *)

\* C4: with a valid station and start_date <= end_date, pauses and fetches
\* alternate, pause first, each pause of 1 unit; the fetches are for the
\* calendar dates from start_date on, one each, ascending, none outside the
\* range; a run that ends normally has fetched every date of the range.
C4_OneFetchPerDate ==
    (ValidStation /\ RangeInOrder) =>
        /\ \A i \in 1..Len(log) :
              IF i % 2 = 1
              THEN log[i].ev = "sleep" /\ log[i].secs = 1
              ELSE /\ log[i].ev = "fetch"
                   /\ IsCalendarDate(UrlDate(log[i].url))
                   /\ log[i].url.year = start_date.year
                   /\ DayOfYear(UrlDate(log[i].url))
                        = DayOfYear(start_date) + (i \div 2) - 1
                   /\ DayOfYear(UrlDate(log[i].url)) <= DayOfYear(end_date)
        /\ pc \in {"write", "loop", "done", "failed"} => Len(log) % 2 = 0
        /\ pc = "done" =>
              Len(log) = 2 * (DayOfYear(end_date) - DayOfYear(start_date) + 1)

\* a run over two dates ended normally after two pauses and two fetches
C4_Witness ==
    /\ pc = "done"
    /\ ValidStation
    /\ DayOfYear(start_date) < DayOfYear(end_date)
    /\ Len(log) >= 4

---------------------------------------------------------------------------
(* C5 *)

C5_State ==
    /\ (log # <<>> /\ scraping_day_per_hour(html, date, facility_type).exc # "")
          => pc = "failed"
    /\ pc = "failed" =>
          /\ exc # ""
          /\ exc = scraping_day_per_hour(html, date, facility_type).exc
          /\ Last(log).ev = "fetch"
          /\ UrlDate(Last(log).url) = date
          /\ ~ENABLED Next
          /\ csv = <<fields>> \o produced
          /\ \A i \in 2..Len(csv) : DayOfYear(csv[i][1]) < DayOfYear(date)

\* C5: a failure of the Day Extractor on date d is not caught: the run is
\* over, with no further pause or fetch; the table is the header and all rows
\* of the dates before d, in the order produced; no row of d is written and no
\* row written before is removed or changed.
C5_FailureKeepsPartialTable ==
    /\ []C5_State
    /\ [][(pc' = "failed" => pc = "fetch" /\ csv' = csv) /\ IsPrefix(csv, csv')]_vars

\* the fetch of the second date failed and the rows of the first are kept
C5_Witness ==
    /\ pc = "failed"
    /\ Len(log) = 4
    /\ Len(csv) = 3

---------------------------------------------------------------------------
(* C6 *)

\* C6: at every point the data rows written are in non-decreasing date order,
\* the rows of one date are contiguous, and they are written in the order the
\* Day Extractor returned them, which is the order of the rows of the page.
C6_RowOrder ==
    /\ \A i \in 2..Len(csv) : \A j \in i..Len(csv) :
          /\ DayOfYear(csv[i][1]) <= DayOfYear(csv[j][1])
          /\ csv[i][1] = csv[j][1] => \A k \in i..j : csv[k][1] = csv[i][1]
    /\ IsPrefix(Written, produced)
    /\ pc = "write" =>
          /\ Len(data_per_day) <= Len(PageRows)
          /\ \A j \in 1..Len(data_per_day) :
                /\ data_per_day[j][1] = date
                /\ data_per_day[j][2] = TdString(Cell(PageRows[j], 0))
          /\ wi - 1 <= Len(data_per_day)
          /\ \A j \in 1..(wi - 1) :
                csv[Len(csv) - (wi - 1) + j] = data_per_day[j]

\* two dates of two rows each were written
C6_Witness ==
    /\ pc = "done"
    /\ Len(csv) = 5
    /\ csv[2][1] = csv[3][1]
    /\ csv[2][2] # csv[3][2]
    /\ csv[3][1] # csv[4][1]

---------------------------------------------------------------------------
(* C8 *)

\* C8: the variant is "s1" for a 5-character station_code and "a1" for a
\* 4-character one, in every url and in every call of the Day Extractor of the
\* run, and the precipitation is read from cell 3 under "s1", cell 1 under "a1".
C8_VariantConstant ==
    ValidStation =>
        LET v == IF Len(block_no) = 5 THEN "s1" ELSE "a1"
            c == IF Len(block_no) = 5 THEN 3 ELSE 1
        IN  /\ pc # "start" => facility_type = v
            /\ \A i \in 1..Len(log) :
                  log[i].ev = "fetch" => log[i].url.variant = v /\ log[i].ft = v
            /\ pc = "write" =>
                  \A j \in 1..Len(data_per_day) :
                      data_per_day[j][3]
                          = string_to_float(TdString(Cell(PageRows[j], c)))

\* the second date of a run of a 5-character station gave records
C8_Witness ==
    /\ pc = "write"
    /\ Len(block_no) = 5
    /\ Len(log) = 4
    /\ Len(data_per_day) >= 1

---------------------------------------------------------------------------
(* C9 *)

\* C9: the header is written once, first, in every run; with start_date after
\* end_date there is no pause and no fetch, the run does not fail, and it ends
\* with the header as the only row.
C9_ReversedRange ==
    /\ pc # "start" =>
          /\ Len(csv) >= 1
          /\ csv[1] = fields
          /\ Len(csv) <= 1 + Len(produced)
    /\ RangeReversed =>
          /\ log = <<>>
          /\ exc = ""
          /\ pc \in {"start", "loop", "done"}
          /\ pc = "loop" => ENABLED Finish /\ ~ENABLED Sleep
          /\ pc = "done" => csv = <<fields>>

\* a run over a reversed range has ended
C9_Witness ==
    /\ pc = "done"
    /\ RangeReversed
    /\ Len(csv) = 1

---------------------------------------------------------------------------
(* C10 *)

\* C10: when create_csv_hour is left, normally or by a failure of the Day
\* Extractor, the file is closed, and a closed file is never written again.
C10_SinkReleased ==
    /\ [](pc \in {"done", "failed"} => sink = "closed")
    /\ [][sink = "closed" => csv' = csv /\ sink' = "closed"]_vars

\* the run was left by a failure after rows had been written
C10_Witness ==
    /\ pc = "failed"
    /\ sink = "closed"
    /\ Len(csv) > 1

===========================================================================
